---- MODULE Spec2Model ----
(***************************************************************************)
(* Metadata reconciliation engine of the Instagram scraper                 *)
(* (src/instagram_scraper.py, src/media_processor.py,                      *)
(* src/image_processor.py): merge of a fetched batch into the persisted    *)
(* snapshot, AI enrichment passes, and the storage integrity audit.        *)
(*                                                                         *)
(* Strings that the code splits or concatenates (post codes, URLs, object  *)
(* paths, media types) are sequences of tokens; "/", "__", "." and "?"     *)
(* are the separator tokens the code splits on.  The empty string is <<>>. *)
(* Optional values (None / NaN) are <<>>, a present value v is <<v>>.      *)
(***************************************************************************)
EXTENDS Integers, Sequences, FiniteSets, TLC

\* ------------------------------------------------------------------ bounds
MaxOps == 2          \* operations started in one behaviour
MaxRecords == 4      \* rows a snapshot may hold
MaxDeletes == 1      \* stored objects that vanish in one behaviour

\* ------------------------------------------------------- string primitives
RECURSIVE SplitFrom(_, _, _, _)
SplitFrom(s, sep, i, cur) ==
    IF i > Len(s) THEN <<cur>>
    ELSE IF s[i] = sep THEN <<cur>> \o SplitFrom(s, sep, i + 1, <<>>)
    ELSE SplitFrom(s, sep, i + 1, Append(cur, s[i]))

\* str.split(sep)
Split(s, sep) == SplitFrom(s, sep, 1, <<>>)

Last(q) == q[Len(q)]

\* str.startswith(p)
StartsWith(s, p) == Len(s) >= Len(p) /\ SubSeq(s, 1, Len(p)) = p

Range(q) == {q[i] : i \in DOMAIN q}

\* ------------------------------------------------------------ environment
Username == "alice"

\* pd.Timestamp.now() / datetime.now() during the k-th operation: later than
\* every timestamp a fetched post can carry
NowBase == 10
NowAt(k) == NowBase + k

\* base_cloud_path = f"instagram/{username}/media"
BaseCloudPath == <<"instagram", "/", Username, "/", "media">>

\* self.media_type_map.get(type_key, "post")
MediaTypeMap(n) ==
    CASE n = 1 -> <<"post">>
      [] n = 2 -> <<"reel">>
      [] n = 8 -> <<"album">>
      [] OTHER -> <<"post">>

\* url.split("?")[0].split(".")[-1]
UrlExt(url) == Last(Split(Split(url, "?")[1], "."))

\* gcs_location of a normalized post
GcsLocation(post_id, media_type, media_urls) ==
    IF media_type = <<"album">>
    THEN BaseCloudPath \o <<"/", "post", "__">> \o post_id \o <<"__", "album">>
    ELSE LET ext == IF media_urls # <<>> THEN UrlExt(media_urls[1]) ELSE <<>>
         IN  IF ext # <<>>
             THEN BaseCloudPath \o <<"/", "post", "__">> \o post_id
                      \o <<"__">> \o media_type \o <<".">> \o ext
             ELSE <<>>

\* -------------------------------------------------------------- raw posts
\* A JSON value of a raw post field: ty is its Python type ("badstr" is a
\* string that int() rejects), n its numeric value.
RawNone == [ty |-> "none", n |-> 0]
RawInt(n) == [ty |-> "int", n |-> n]
RawStr(n) == [ty |-> "str", n |-> n]
RawBad == [ty |-> "badstr", n |-> 0]
RawFloat(n) == [ty |-> "float", n |-> n]

\* Python truthiness of a raw field value (`if field_value:`)
Truthy(v) ==
    CASE v.ty = "none" -> FALSE
      [] v.ty \in {"int", "float"} -> v.n # 0
      [] OTHER -> TRUE

\* One round of the timestamp loop: <<t>> when the field yields a timestamp,
\* <<>> when it is skipped (falsy, wrong type, or int() raises ValueError)
ParseTimestampField(v) ==
    IF Truthy(v) /\ v.ty \in {"int", "str"} THEN <<v.n>> ELSE <<>>

UrlJpgA == <<"cdn_a", ".", "jpg", "?", "sig">>
UrlJpgB == <<"cdn_b", ".", "jpg">>
UrlMp4 == <<"cdn_v", ".", "mp4", "?", "sig">>

RawPost(code, cap, ts, mv) ==
    [code |-> code, caption |-> cap, taken_at_utc |-> ts[1], taken_at |-> ts[2],
     media_type |-> mv[1], shape |-> mv[2], urls |-> mv[3]]

\* timestamp field pairs <<taken_at_utc, taken_at>> a fetched post may carry
TsBoth == <<RawInt(1), RawInt(2)>>
TsSecondary == <<RawBad, RawStr(2)>>
TsNone == <<RawNone, RawBad>>
TsUnusable == <<RawFloat(1), RawInt(0)>>

\* media descriptions <<media_type, shape, urls>> a fetched post may carry;
\* shape names the media structure present in the JSON
MvImage == <<RawInt(1), "image", <<UrlJpgA>>>>
MvReel == <<RawInt(2), "video", <<UrlMp4>>>>
MvAlbum == <<RawInt(8), "carousel", <<UrlJpgA, UrlJpgB>>>>
MvReelStr == <<RawStr(2), "video", <<UrlMp4>>>>
MvUnknown == <<RawInt(5), "image", <<UrlJpgB>>>>
MvFallback == <<RawNone, "carousel", <<UrlJpgB>>>>
MvNoUrl == <<RawInt(1), "none", <<>>>>
MvBadType == <<RawBad, "image", <<UrlJpgA>>>>
MvNoCandidates == <<RawInt(1), "image_nocand", <<>>>>

\* Posts the scraping API may report (merge-step inputs): post X varies in
\* caption and timestamp fields, post Y in its media; one post has no code,
\* one a code that contains "__".
RawPosts ==
    { RawPost(<<"X">>, "c1", ts, MvImage) : ts \in {TsBoth, TsSecondary, TsNone, TsUnusable} }
    \cup { RawPost(<<"X">>, "c2", TsNone, MvReelStr) }
    \cup { RawPost(<<"Y">>, "c1", TsBoth, mv) :
             mv \in {MvImage, MvAlbum, MvUnknown, MvFallback,
                     MvNoUrl, MvBadType, MvNoCandidates} }
    \cup { RawPost(<<>>, "c1", TsNone, MvReel) }
    \cup { RawPost(<<"Y">>, "c2", TsBoth, MvAlbum) }
    \cup { RawPost(<<"A", "__", "B">>, "c1", TsBoth, MvImage) }

\* Posts fetched in whole-pipeline runs
FetchedPosts ==
    { RawPost(<<"X">>, "c1", TsBoth, MvImage),
      RawPost(<<"X">>, "c2", TsNone, MvNoUrl),
      RawPost(<<"Y">>, "c1", TsBoth, MvReel),
      RawPost(<<"Y">>, "c1", TsBoth, MvAlbum),
      RawPost(<<"Y">>, "c1", TsBoth, MvNoCandidates) }

MaxBatch == 2
BatchesOf(P) == UNION { [1..n -> P] : n \in 0..MaxBatch }

\* ------------------------------------------------------------ post records
None == [exists |-> FALSE, rows |-> <<>>]
Some(rows) == [exists |-> TRUE, rows |-> rows]

\* ai_analysis_results = {"status": "pending"}
PendingResults == [kind |-> "pending", description |-> ""]
\* the seven-key analysis dictionary stored after an analysis call
AnalysisResults(d) == [kind |-> "analysis", description |-> d]

PostIds(rows) == {rows[i].post_id : i \in DOMAIN rows}

\* first row carrying post_id (.loc[...].iloc[0])
FirstRow(rows, id) == rows[CHOOSE i \in DOMAIN rows :
                             /\ rows[i].post_id = id
                             /\ \A j \in 1..(i - 1) : rows[j].post_id # id]

\* last row carrying post_id (dict comprehension: later rows overwrite)
LastRow(rows, id) == rows[CHOOSE i \in DOMAIN rows :
                            /\ rows[i].post_id = id
                            /\ \A j \in (i + 1)..Len(rows) : rows[j].post_id # id]

\* ------------------------------------------------- extract_post_metadata
\* variant: falls back to the current time without looking at the prior record
ResolveTimestampNowFirst(post, existing, now) ==
    LET utc == ParseTimestampField(post.taken_at_utc)
        at  == ParseTimestampField(post.taken_at)
    IN  IF utc # <<>> THEN utc[1]
        ELSE IF at # <<>> THEN at[1]
        ELSE now

\* timestamp of a candidate: primary field, secondary field, prior record
\* with the same post_id, current time
ResolveTimestamp(post, existing, now) ==
    LET utc == ParseTimestampField(post.taken_at_utc)
        at  == ParseTimestampField(post.taken_at)
    IN  IF utc # <<>> THEN utc[1]
        ELSE IF at # <<>> THEN at[1]
        ELSE IF existing.exists /\ post.code \in PostIds(existing.rows)
             THEN FirstRow(existing.rows, post.code).timestamp
        ELSE now

\* int(raw_media_type) raises ValueError
MediaTypeRaises(post) == post.media_type.ty = "badstr"

ResolveMediaType(post) ==
    IF post.media_type.ty \in {"int", "str"}
    THEN MediaTypeMap(post.media_type.n)
    ELSE IF post.shape = "video" THEN <<"reel">>
    ELSE IF post.shape = "carousel" THEN <<"album">>
    ELSE <<"post">>

\* the single-post branch indexes an empty candidates list (IndexError)
MediaUrlsRaises(post) ==
    /\ ~(ResolveMediaType(post) = <<"album">> /\ post.shape = "carousel")
    /\ ResolveMediaType(post) # <<"reel">>
    /\ post.shape = "image_nocand"

ExtractMediaUrls(post, media_type) ==
    IF media_type = <<"album">> /\ post.shape = "carousel" THEN post.urls
    ELSE IF media_type = <<"reel">>
         THEN IF post.shape = "video" /\ post.urls # <<>> THEN <<post.urls[1]>> ELSE <<>>
    ELSE IF post.shape = "image" /\ post.urls # <<>> THEN <<post.urls[1]>>
    ELSE <<>>

NormalizeRaises(post) == MediaTypeRaises(post) \/ MediaUrlsRaises(post)

Normalize(post, existing, now) ==
    LET mt   == ResolveMediaType(post)
        urls == ExtractMediaUrls(post, mt)
    IN  [username |-> Username,
         post_id |-> post.code,
         caption |-> post.caption,
         timestamp |-> ResolveTimestamp(post, existing, now),
         media_type |-> mt,
         like_count |-> 0,
         comment_count |-> 0,
         media_urls |-> urls,
         media_processed |-> FALSE,
         media_processed_urls |-> <<>>,
         media_processed_timestamp |-> <<>>,
         media_processed_error |-> <<>>,
         gcs_location |-> GcsLocation(post.code, mt, urls),
         ai_content_description |-> "",
         ai_processed_time |-> <<>>,
         ai_analysis_results |-> PendingResults]

ExtractRaises(posts) == \E i \in DOMAIN posts : NormalizeRaises(posts[i])

\* variant: a re-reported prior row also takes the caption of its candidate
UpdateExistingRowCaption(row, candidates) ==
    IF row.post_id \in PostIds(candidates)
    THEN [row EXCEPT !.timestamp = LastRow(candidates, row.post_id).timestamp,
                     !.caption = LastRow(candidates, row.post_id).caption]
    ELSE row

\* variant: a re-reported prior row is replaced by its fresh candidate
UpdateExistingRowReplace(row, candidates) ==
    IF row.post_id \in PostIds(candidates)
    THEN LastRow(candidates, row.post_id)
    ELSE row

\* timestamps of prior rows re-reported by the batch are overwritten
UpdateExistingRow(row, candidates) ==
    IF row.post_id \in PostIds(candidates)
    THEN [row EXCEPT !.timestamp = LastRow(candidates, row.post_id).timestamp]
    ELSE row

\* candidates that join the record set
NewPosts(candidates, existing) ==
    SelectSeq(candidates, LAMBDA r : r.post_id \notin PostIds(existing.rows))

ExtractPostMetadata(posts, existing, now) ==
    LET candidates == [i \in DOMAIN posts |-> Normalize(posts[i], existing, now)]
    IN  IF ~existing.exists THEN candidates
        ELSE [i \in DOMAIN existing.rows |->
                 UpdateExistingRow(existing.rows[i], candidates)]
             \o NewPosts(candidates, existing)

\* ------------------------------------------------- process_media_content
DescriptionText == "description of the media"
VideoFailedText == "Failed to process video content."

\* variant: every row is analysed again
NeedsProcessingAlways(row) == TRUE

\* `pd.isna(row["ai_processed_time"]) or not row["ai_content_description"]`
NeedsProcessing(row) ==
    row.ai_processed_time = <<>> \/ row.ai_content_description = ""

\* f"{album_path}/image_{i}.jpg", the album item a grid is built from
AlbumImagePath(gcs, i) == gcs \o <<"/", "image_", ToString(i), ".", "jpg">>

\* f"{grid_base_path}/grid_{grid_idx}.jpg" with grid_base_path = gcs/grids
GridPath(gcs, k) == gcs \o <<"/", "grids", "/", "grid_", ToString(k), ".", "jpg">>

\* math.ceil(num_images / 4)
NumGrids(n) == (n + 3) \div 4

\* os.path.splitext(gcs_path)[0] + "_processed.mp4"
ProcessedVideoPath(gcs) ==
    LET segs == Split(gcs, "/")
        file == Last(segs)
        dots == {i \in DOMAIN file : file[i] = "."}
        cut  == IF dots = {} THEN 0
                ELSE Len(file) - (CHOOSE i \in dots : \A j \in dots : j <= i) + 1
    IN  SubSeq(gcs, 1, Len(gcs) - cut) \o <<"_processed", ".", "mp4">>

\* the analysis call on row succeeds: its media is readable and the model answers
AnalysisSucceeds(row, store, fails) ==
    /\ row.post_id \notin fails
    /\ IF row.media_type = <<"album">> THEN TRUE ELSE row.gcs_location \in store

\* process_album_images raises (a source image is missing) or returns no grid
AlbumGridsFail(row, store) ==
    \/ Len(row.media_urls) = 0
    \/ \E i \in 0..(Len(row.media_urls) - 1) :
           AlbumImagePath(row.gcs_location, i) \notin store

\* the row is handed to an analysis call in this pass
IsAttempted(row) ==
    /\ NeedsProcessing(row)
    /\ row.gcs_location # <<>>
    /\ row.media_type \in {<<"post">>, <<"reel">>, <<"album">>}

\* the row is rewritten by this pass (lines 610-616 are reached)
IsProcessed(row, store) ==
    /\ IsAttempted(row)
    /\ ~(row.media_type = <<"album">> /\ AlbumGridsFail(row, store))

\* the analysis of the row ends in an exception or in a failed model call
RowFails(row, store, fails) ==
    \/ row.media_type = <<"album">> /\ AlbumGridsFail(row, store)
    \/ ~AnalysisSucceeds(row, store, fails)

\* variant: the loop ends at the first row whose analysis fails
LoopReachesUntilFailure(rows, store, fails, i) ==
    \A j \in 1..(i - 1) : ~(IsAttempted(rows[j]) /\ RowFails(rows[j], store, fails))

\* the loop reaches row i: the try/except lies inside the loop body, every
\* handler ends in `continue`
LoopReaches(rows, store, fails, i) == TRUE

\* content_description computed for the row
ContentDescription(row, store, fails) ==
    IF AnalysisSucceeds(row, store, fails) THEN DescriptionText
    ELSE IF row.media_type = <<"reel">> THEN VideoFailedText
    ELSE ""

ProcessRow(row, store, fails, now) ==
    IF IsProcessed(row, store)
    THEN LET d == ContentDescription(row, store, fails)
         IN  [row EXCEPT !.ai_analysis_results = AnalysisResults(d),
                         !.ai_content_description = d,
                         !.ai_processed_time = <<now>>]
    ELSE row

ProcessMediaContent(rows, store, fails, now) ==
    [i \in DOMAIN rows |->
        IF LoopReaches(rows, store, fails, i)
        THEN ProcessRow(rows[i], store, fails, now)
        ELSE rows[i]]

\* rows handed to an analysis call by the pass
Attempted(rows, store, fails) ==
    {i \in DOMAIN rows : LoopReaches(rows, store, fails, i) /\ IsAttempted(rows[i])}

ProcessedCount(rows, store) ==
    Cardinality({i \in DOMAIN rows : IsProcessed(rows[i], store)})

SkippedCount(rows, store) ==
    Cardinality({i \in DOMAIN rows : ~IsProcessed(rows[i], store)})

\* objects the pass uploads: the processed copy of every video it could
\* download (uploaded before the model is asked) and the album grids
EnrichmentUploads(rows, store, fails) ==
    { ProcessedVideoPath(rows[i].gcs_location) :
        i \in {j \in DOMAIN rows : /\ IsProcessed(rows[j], store)
                                   /\ rows[j].media_type = <<"reel">>
                                   /\ rows[j].gcs_location \in store} }
    \cup UNION { { GridPath(rows[i].gcs_location, k) :
                     k \in 0..(NumGrids(Len(rows[i].media_urls)) - 1) } :
                 i \in {j \in DOMAIN rows : /\ IsProcessed(rows[j], store)
                                            /\ rows[j].media_type = <<"album">>} }

\* update_all: reset of the enrichment group of every row
ResetEnrichment(rows) ==
    [i \in DOMAIN rows |->
        [rows[i] EXCEPT !.ai_content_description = "",
                        !.ai_processed_time = <<>>,
                        !.ai_analysis_results = PendingResults]]

\* rows counted as not yet processed by run_ai_processing
ItemsToProcess(rows) ==
    Cardinality({i \in DOMAIN rows : rows[i].ai_content_description = ""})

\* ------------------------------------------- download_media_from_metadata
\* cloud paths the rows' media is mirrored to
DownloadPaths(row) ==
    IF row.media_urls = <<>> THEN {}
    ELSE IF row.media_type = <<"album">>
    THEN { BaseCloudPath \o <<"/", "post", "__">> \o row.post_id
               \o <<"__", "album", "/", "image_", ToString(i - 1), ".">>
               \o UrlExt(row.media_urls[i]) : i \in DOMAIN row.media_urls }
    ELSE { BaseCloudPath \o <<"/", "post", "__">> \o row.post_id \o <<"__">>
               \o row.media_type \o <<".">> \o UrlExt(row.media_urls[1]) }

AllDownloadPaths(rows) == UNION { DownloadPaths(rows[i]) : i \in DOMAIN rows }

\* ----------------------------------------------- verify_metadata_integrity
\* list_blobs(prefix): the stored objects whose name starts with prefix
ListBlobs(store, prefix) == {o \in store : StartsWith(o, prefix)}

\* the record's claimed storage exists
StorageExists(row, store) ==
    IF row.gcs_location = <<>> THEN FALSE
    ELSE IF row.media_type = <<"album">>
    THEN ListBlobs(store, row.gcs_location \o <<"/">>) # {}
    ELSE row.gcs_location \in store

\* missing_post_ids
MissingPostIds(rows, store) ==
    {rows[i].post_id : i \in {j \in DOMAIN rows : ~StorageExists(rows[j], store)}}

\* metadata_df[~metadata_df["post_id"].isin(missing_post_ids)]
RemoveMissing(rows, store) ==
    SelectSeq(rows, LAMBDA r : r.post_id \notin MissingPostIds(rows, store))

\* parts[-1] of file_path.split("/")
FileName(path) == Last(Split(path, "/"))

IsPostFile(path) ==
    /\ Len(Split(path, "/")) >= 4
    /\ StartsWith(FileName(path), <<"post", "__">>)

\* filename.split("__")[1]
ParsePostId(path) == Split(FileName(path), "__")[2]

\* filename.split("__")[2].split(".")[0]
ParseMediaType(path) == Split(Split(FileName(path), "__")[3], ".")[1]

\* variant: every post file counts as unreferenced
UnreferencedFilesAny(rows, store) ==
    {o \in ListBlobs(store, BaseCloudPath \o <<"/">>) : IsPostFile(o)}

\* unreferenced_files, as a set
UnreferencedFiles(rows, store) ==
    {o \in ListBlobs(store, BaseCloudPath \o <<"/">>) :
        IsPostFile(o) /\ ParsePostId(o) \notin PostIds(rows)}

\* filename.split("__")[2] raises IndexError on an unreferenced file
ParseRaises(rows, store) ==
    \E o \in UnreferencedFiles(rows, store) : Len(Split(FileName(o), "__")) < 3

\* the listing order of the object store
RECURSIVE InListingOrder(_)
InListingOrder(S) ==
    IF S = {} THEN <<>>
    ELSE LET o == CHOOSE x \in S : TRUE
         IN  <<o>> \o InListingOrder(S \ {o})

\* new_record for an unreferenced file
Placeholder(path, now) ==
    [username |-> Username,
     post_id |-> ParsePostId(path),
     caption |-> "",
     timestamp |-> now,
     media_type |-> ParseMediaType(path),
     like_count |-> 0,
     comment_count |-> 0,
     media_urls |-> <<>>,
     media_processed |-> FALSE,
     media_processed_urls |-> <<>>,
     media_processed_timestamp |-> <<>>,
     media_processed_error |-> <<>>,
     gcs_location |-> path,
     ai_content_description |-> "",
     ai_processed_time |-> <<>>,
     ai_analysis_results |-> PendingResults]

Placeholders(rows, store, now) ==
    LET files == InListingOrder(UnreferencedFiles(rows, store))
    IN  [i \in DOMAIN files |-> Placeholder(files[i], now)]

\* the record set the audit returns
AuditResult(rows, store, now) ==
    LET kept == RemoveMissing(rows, store)
    IN  kept \o Placeholders(kept, store, now)

\* variant: the audit uploads the snapshot unconditionally
AuditWritesAlways(rows, store) == TRUE

\* `if missing_files or unreferenced_files`
AuditWrites(rows, store) ==
    \/ MissingPostIds(rows, store) # {}
    \/ UnreferencedFiles(RemoveMissing(rows, store), store) # {}

\* ------------------------------------------------------------------ state
VARIABLES
    snapshot,     \* instagram/<username>/metadata.parquet: None or Some(rows)
    storage,      \* media objects in the bucket (set of paths)
    clock,        \* operations started so far; fixes the wall-clock time
    deletes,      \* stored objects that vanished so far
    task,         \* per background task: position and local variables
    auditStreak,  \* audits completed since the last other step (at most 2)
    auditWrote,   \* the last audit uploaded the snapshot
    doc,          \* Firestore document scraping_results/<username>
    verification  \* status of the document verification_results/<username>

vars == <<snapshot, storage, clock, deletes, task, auditStreak, auditWrote, doc,
          verification>>

Tasks == {1, 2}

IdleTask ==
    [pc |-> "idle", op |-> "none", auto |-> FALSE, mode |-> "skip",
     existing |-> None, posts |-> <<>>, df |-> <<>>, ret |-> None,
     processed |-> 0, skipped |-> 0, failed |-> {}, attempted |-> {},
     fetch |-> "none", run |-> 0]

\* the document does not exist; metadata is <<>> while the document has no
\* metadata field and <<rows>> once a run published rows; trail lists the
\* values the field status took since a handler last initialised it
NoDoc == [exists |-> FALSE, status |-> "none", metadata |-> <<>>, trail |-> <<>>]

\* objects found in the bucket when the scraper is constructed
OrphanAlbumItem ==
    BaseCloudPath \o <<"/", "post", "__", "Y", "__", "album", "/", "image_", "0", ".", "jpg">>
OrphanReel ==
    BaseCloudPath \o <<"/", "post", "__", "Y", "__", "reel", ".", "mp4">>
OrphanProcessedReel == ProcessedVideoPath(OrphanReel)

InitialStores == {{}, {OrphanAlbumItem}, {OrphanReel, OrphanProcessedReel}}

Init ==
    /\ snapshot = None
    /\ storage \in InitialStores
    /\ clock = 0
    /\ deletes = 0
    /\ task = [t \in Tasks |-> IdleTask]
    /\ auditStreak = 0
    /\ auditWrote = FALSE
    /\ doc = NoDoc
    /\ verification = "none"

Now == NowAt(clock)

\* the task returns v to its caller and forgets its local variables; run
\* numbers the operation the task started last
Return(t, v) ==
    [task EXCEPT ![t] = [IdleTask EXCEPT !.ret = v,
                                         !.run = IF task[t].pc = "idle" THEN clock'
                                                 ELSE task[t].run]]

NotAudit == auditStreak' = 0 /\ auditWrote' = FALSE

\* ---------------------------------------------------------- process_profile
\* outcomes of get_user_posts: the pages were read, or the request raised
\* (the except branches return an empty list)
FetchOutcomes == {"ok", "error"}

\* variant: a fetch without posts yields an empty record set
ZeroPostsResultEmpty(existing) == Some(<<>>)

\* `if not posts: return existing_metadata`
ZeroPostsResult(existing) == existing

\* lines 765-780: load the prior snapshot and fetch the batch
ScrapeLoad(t, batch, fetched) ==
    /\ task[t].pc = "idle"
    /\ clock < MaxOps
    /\ fetched = "error" => batch = <<>>
    /\ clock' = clock + 1
    /\ task' = IF batch = <<>>
               THEN [Return(t, ZeroPostsResult(snapshot)) EXCEPT ![t].fetch = fetched]
               ELSE [task EXCEPT ![t] = [IdleTask EXCEPT !.pc = "merge", !.op = "scrape",
                                             !.existing = snapshot, !.posts = batch,
                                             !.fetch = fetched, !.run = clock']]
    /\ NotAudit
    /\ UNCHANGED <<snapshot, storage, deletes>>

\* variant: the upload keeps the records of the stored snapshot that the
\* uploaded frame does not hold
UploadFromFileKeeping(current, rows) ==
    Some(rows \o SelectSeq(current.rows, LAMBDA r : r.post_id \notin PostIds(rows)))

\* blob.upload_from_file in upload_dataframe: the object is replaced by the
\* frame of the caller whatever it holds, without a generation precondition
UploadFromFile(current, rows) == Some(rows)

\* lines 782-795: merge and save; an exception ends the run with None
ScrapeMerge(t) ==
    /\ task[t].pc = "merge"
    /\ IF ExtractRaises(task[t].posts)
       THEN /\ task' = Return(t, None)
            /\ UNCHANGED snapshot
       ELSE LET merged == ExtractPostMetadata(task[t].posts, task[t].existing, Now)
            IN  /\ Len(merged) <= MaxRecords
                /\ snapshot' = UploadFromFile(snapshot, merged)
                /\ task' = [task EXCEPT ![t].pc = "download", ![t].df = merged]
    /\ NotAudit
    /\ UNCHANGED <<storage, clock, deletes>>

\* lines 797-803: mirror the media; the downloads of the posts in failed fail;
\* auto is self.auto_process_with_vertex
ScrapeDownload(t, failed, auto) ==
    /\ task[t].pc = "download"
    /\ failed \subseteq {task[t].df[i].post_id :
                            i \in {j \in DOMAIN task[t].df :
                                      DownloadPaths(task[t].df[j]) \ storage # {}}}
    /\ storage' = storage \cup
          UNION { DownloadPaths(task[t].df[i]) :
                    i \in {j \in DOMAIN task[t].df : task[t].df[j].post_id \notin failed} }
    /\ task' = [task EXCEPT ![t].pc = IF auto THEN "enrich" ELSE "audit", ![t].auto = auto,
                            ![t].existing = None, ![t].posts = <<>>]
    /\ NotAudit
    /\ UNCHANGED <<snapshot, clock, deletes>>

\* ---------------------------------------------------------- run_ai_processing
\* lines 839-885: load, count, and prepare the rows for the chosen mode
AILoad(t, mode) ==
    /\ task[t].pc = "idle"
    /\ clock < MaxOps
    /\ clock' = clock + 1
    /\ task' =
         IF ~snapshot.exists \/ snapshot.rows = <<>>
         THEN Return(t, None)
         ELSE IF mode = "skip" \/ (mode = "update_remaining" /\ ItemsToProcess(snapshot.rows) = 0)
         THEN Return(t, snapshot)
         ELSE [task EXCEPT ![t] = [IdleTask EXCEPT !.pc = "enrich", !.op = "ai", !.mode = mode,
                                       !.run = clock',
                                       !.existing = snapshot,
                                       !.df = IF mode = "update_all"
                                              THEN ResetEnrichment(snapshot.rows)
                                              ELSE snapshot.rows]]
    /\ NotAudit
    /\ UNCHANGED <<snapshot, storage, deletes>>

\* process_media_content followed by upload_dataframe (lines 805-813, 887-895);
\* fails is the set of posts whose analysis call errors
Enrich(t, fails) ==
    /\ task[t].pc = "enrich"
    /\ fails \subseteq {task[t].df[i].post_id :
                           i \in {j \in DOMAIN task[t].df : IsProcessed(task[t].df[j], storage)}}
    /\ LET rows == task[t].df
           done == ProcessMediaContent(rows, storage, fails, Now)
       IN  /\ snapshot' = UploadFromFile(snapshot, done)
           /\ storage' = storage \cup EnrichmentUploads(rows, storage, fails)
           /\ task' = [task EXCEPT ![t].pc = "audit", ![t].df = done,
                                   ![t].processed = ProcessedCount(rows, storage),
                                   ![t].skipped = SkippedCount(rows, storage),
                                   ![t].attempted = Attempted(rows, storage, fails),
                                   ![t].failed = {i \in DOMAIN rows :
                                                     /\ IsProcessed(rows[i], storage)
                                                     /\ ~AnalysisSucceeds(rows[i], storage, fails)}]
    /\ NotAudit
    /\ UNCHANGED <<clock, deletes>>

\* ---------------------------------------------------- verify_metadata_integrity
AuditBody(t) ==
    /\ IF ~snapshot.exists \/ snapshot.rows = <<>> \/ ParseRaises(RemoveMissing(snapshot.rows, storage), storage)
       THEN /\ task' = Return(t, None)
            /\ auditWrote' = FALSE
            /\ UNCHANGED snapshot
       ELSE LET result == AuditResult(snapshot.rows, storage, Now)
            IN  /\ Len(result) <= MaxRecords
                /\ task' = Return(t, Some(result))
                /\ auditWrote' = AuditWrites(snapshot.rows, storage)
                /\ snapshot' = IF AuditWrites(snapshot.rows, storage)
                               THEN Some(result) ELSE snapshot
    /\ auditStreak' = IF auditStreak < 2 THEN auditStreak + 1 ELSE 2
    /\ UNCHANGED <<storage, deletes>>

\* the audit that ends process_profile and run_ai_processing
TrailingAudit(t) ==
    /\ task[t].pc = "audit"
    /\ AuditBody(t)
    /\ UNCHANGED clock

\* the audit run on its own
Verify(t) ==
    /\ task[t].pc = "idle"
    /\ clock < MaxOps
    /\ clock' = clock + 1
    /\ AuditBody(t)

\* ------------------------------------------------------------- environment
\* a stored media object vanishes between two operations
DeleteObject(o) ==
    /\ o \in storage
    /\ \A t \in Tasks : task[t].pc = "idle"
    /\ deletes < MaxDeletes
    /\ deletes' = deletes + 1
    /\ storage' = storage \ {o}
    /\ NotAudit
    /\ UNCHANGED <<snapshot, clock, task>>

Modes == {"update_all", "update_remaining", "skip"}

\* one operation at a time
Next ==
    \/ \E batch \in BatchesOf(FetchedPosts), fetched \in FetchOutcomes :
          ScrapeLoad(1, batch, fetched) /\ UNCHANGED <<doc, verification>>
    \/ ScrapeMerge(1) /\ UNCHANGED <<doc, verification>>
    \/ \E failed \in SUBSET PostIds(task[1].df), auto \in BOOLEAN :
          ScrapeDownload(1, failed, auto) /\ UNCHANGED <<doc, verification>>
    \/ \E mode \in Modes : AILoad(1, mode) /\ UNCHANGED <<doc, verification>>
    \/ \E fails \in SUBSET PostIds(task[1].df) : Enrich(1, fails) /\ UNCHANGED <<doc, verification>>
    \/ TrailingAudit(1) /\ UNCHANGED <<doc, verification>>
    \/ Verify(1) /\ UNCHANGED <<doc, verification>>
    \/ \E o \in storage : DeleteObject(o) /\ UNCHANGED <<doc, verification>>

Spec == Init /\ [][Next]_vars

\* ------------------------------------------- /api/scrape and /api/verify
\* doc_ref.set({...}): the document is replaced, fields not given are dropped
DocSet(status) ==
    [exists |-> TRUE, status |-> status, metadata |-> <<>>, trail |-> <<status>>]

\* doc_ref.update({"status": ...}): the other fields stay
DocUpdate(d, status) == [d EXCEPT !.status = status, !.trail = Append(@, status)]

\* variant: a run that got no data writes no status
ScrapeOutcomeSilent(d, v) ==
    IF v.exists
    THEN [DocUpdate(DocUpdate(d, "in_progress"), "completed") EXCEPT !.metadata = <<v.rows>>]
    ELSE d

\* the final update of process_scraping once process_profile has returned v
ScrapeOutcome(d, v) ==
    IF v.exists
    THEN [DocUpdate(DocUpdate(d, "in_progress"), "completed") EXCEPT !.metadata = <<v.rows>>]
    ELSE DocUpdate(d, "failed")

\* the document after a step of task t's scrape run, d being the document
\* the step found
ScrapeDoc(t, d) ==
    IF task'[t].pc = "idle" THEN ScrapeOutcome(d, task'[t].ret) ELSE d

\* the handler initialises the document and the background task starts
\* process_profile; no check for a run already in flight
ProcessScrapingStart(t, batch, fetched) ==
    /\ ScrapeLoad(t, batch, fetched)
    /\ doc' = ScrapeDoc(t, DocUpdate(DocSet("initializing"), "fetching_profile"))
    /\ UNCHANGED verification

ProcessScrapingMerge(t) ==
    /\ ScrapeMerge(t)
    /\ doc' = ScrapeDoc(t, doc)
    /\ UNCHANGED verification

ProcessScrapingDownload(t, failed, auto) ==
    /\ ScrapeDownload(t, failed, auto)
    /\ UNCHANGED <<doc, verification>>

ProcessScrapingEnrich(t, fails) ==
    /\ task[t].op = "scrape"
    /\ Enrich(t, fails)
    /\ UNCHANGED <<doc, verification>>

ProcessScrapingAudit(t) ==
    /\ task[t].op = "scrape"
    /\ TrailingAudit(t)
    /\ doc' = ScrapeDoc(t, doc)
    /\ UNCHANGED verification

\* the status process_verification leaves once verify_metadata_integrity has
\* returned v; the exception handler writes "failed" as well
VerifyOutcome(v) == IF v.exists THEN "completed" ELSE "failed"

\* /api/verify reports to the collection verification_results
ProcessVerification(t) ==
    /\ Verify(t)
    /\ verification' = VerifyOutcome(task'[t].ret)
    /\ UNCHANGED doc

\* ------------------------------------------------------- /api/process-ai
\* `post.get("ai_analysis_results") and post.get(...).get("description")`
HasDescription(post) == post.ai_analysis_results.description # ""

\* update_all: a copy of the published entry that takes the AI fields of the
\* record; updated_post["ai_analysis"] = new_post.get("ai_analysis", {})
\* adds the key ai_analysis
WithAiFields(entry, new) ==
    [k \in DOMAIN entry \cup {"ai_analysis"} |->
        CASE k = "ai_analysis" -> <<>>
          [] k = "ai_content_description" -> new.ai_content_description
          [] k = "ai_processed_time" -> new.ai_processed_time
          [] k = "ai_analysis_results" -> new.ai_analysis_results
          [] OTHER -> entry[k]]

\* update_all: one entry per record, built on the first published entry of
\* the same post_id when there is one
UpdateAllMetadata(existing, new) ==
    [i \in DOMAIN new |->
        IF new[i].post_id \in PostIds(existing)
        THEN WithAiFields(FirstRow(existing, new[i].post_id), new[i])
        ELSE new[i]]

\* update_remaining: the published entry lacks a description and the first
\* record of its post_id brings one
TakesAnalysis(entry, new) ==
    /\ ~HasDescription(entry)
    /\ entry.post_id \in PostIds(new)
    /\ HasDescription(FirstRow(new, entry.post_id))

\* update_remaining: the published entries, those that take an analysis
\* updated in place; the records themselves when nothing was updated although
\* an entry lacks a description
UpdateRemainingMetadata(existing, new) ==
    LET updated == [i \in DOMAIN existing |->
                       IF TakesAnalysis(existing[i], new)
                       THEN [existing[i] EXCEPT
                               !.ai_analysis_results =
                                   FirstRow(new, existing[i].post_id).ai_analysis_results,
                               !.ai_content_description =
                                   FirstRow(new, existing[i].post_id).ai_content_description,
                               !.ai_processed_time =
                                   FirstRow(new, existing[i].post_id).ai_processed_time]
                       ELSE existing[i]]
        updated_count == Cardinality({i \in DOMAIN existing : TakesAnalysis(existing[i], new)})
        all_have_ai == \A i \in DOMAIN existing : HasDescription(existing[i])
    IN  IF updated_count = 0 /\ ~all_have_ai /\ new # <<>> THEN new ELSE updated

\* the final update of process_ai_analysis once run_ai_processing has
\* returned v, d being the document it reads
AiOutcome(d, v, mode) ==
    IF ~v.exists THEN DocUpdate(d, "failed")
    ELSE IF ~d.exists THEN DocSet("failed")
    ELSE LET existing == IF d.metadata = <<>> THEN <<>> ELSE d.metadata[1]
             new      == v.rows
             merged   == IF mode = "update_all" THEN UpdateAllMetadata(existing, new)
                         ELSE UpdateRemainingMetadata(existing, new)
         IN  IF existing = <<>> /\ new # <<>>
             THEN [DocUpdate(d, "completed") EXCEPT !.metadata = <<new>>]
             ELSE IF mode = "skip" THEN DocUpdate(d, "completed")
             ELSE IF merged = <<>> THEN DocUpdate(d, "failed")
             ELSE [DocUpdate(d, "completed") EXCEPT !.metadata = <<merged>>]

\* doc_ref.update({"status": "initializing", ...}) of the handler
DocInit(d) == [d EXCEPT !.status = "initializing", !.trail = <<"initializing">>]

\* the handler answers 404 unless the document exists, sets the status to
\* initializing and starts run_ai_processing in the background
ProcessAiStart(t, mode) ==
    /\ doc.exists
    /\ AILoad(t, mode)
    /\ doc' = IF task'[t].pc = "idle"
              THEN AiOutcome(DocInit(doc), task'[t].ret, mode)
              ELSE DocInit(doc)
    /\ UNCHANGED verification

ProcessAiEnrich(t, fails) ==
    /\ task[t].op = "ai"
    /\ Enrich(t, fails)
    /\ UNCHANGED <<doc, verification>>

ProcessAiAudit(t) ==
    /\ task[t].op = "ai"
    /\ TrailingAudit(t)
    /\ doc' = AiOutcome(doc, task'[t].ret, task[t].mode)
    /\ UNCHANGED verification

\* posts fetched in runs started through the API
ApiPosts ==
    { RawPost(<<"X">>, "c1", TsBoth, MvImage),
      RawPost(<<"Y">>, "c1", TsBoth, MvReel) }

\* background tasks run in a thread pool: the steps of the tasks interleave
NextApi ==
    \/ \E t \in Tasks, batch \in BatchesOf(ApiPosts), fetched \in FetchOutcomes :
          ProcessScrapingStart(t, batch, fetched)
    \/ \E t \in Tasks : ProcessScrapingMerge(t)
    \/ \E t \in Tasks : \E failed \in SUBSET PostIds(task[t].df), auto \in BOOLEAN :
          ProcessScrapingDownload(t, failed, auto)
    \/ \E t \in Tasks : \E fails \in SUBSET PostIds(task[t].df) :
          ProcessScrapingEnrich(t, fails)
    \/ \E t \in Tasks : ProcessScrapingAudit(t)
    \/ \E t \in Tasks : ProcessVerification(t)
    \/ \E o \in storage : DeleteObject(o) /\ UNCHANGED <<doc, verification>>

\* the API serves a username whose bucket is empty at first
InitApi == Init /\ storage = {}

SpecApi == InitApi /\ [][NextApi]_vars

\* ------------------------------------------- the three handlers, one by one
\* posts fetched when the handlers are called one after the other
ServicePosts ==
    ApiPosts \cup { RawPost(<<"Y">>, "c1", TsBoth, MvNoCandidates) }

\* one request at a time: a request is sent once the previous run has ended
NextService ==
    \/ \E batch \in BatchesOf(ServicePosts), fetched \in FetchOutcomes :
          ProcessScrapingStart(1, batch, fetched)
    \/ ProcessScrapingMerge(1)
    \/ \E failed \in SUBSET PostIds(task[1].df), auto \in BOOLEAN :
          ProcessScrapingDownload(1, failed, auto)
    \/ \E fails \in SUBSET PostIds(task[1].df) : ProcessScrapingEnrich(1, fails)
    \/ ProcessScrapingAudit(1)
    \/ \E mode \in Modes : ProcessAiStart(1, mode)
    \/ \E fails \in SUBSET PostIds(task[1].df) : ProcessAiEnrich(1, fails)
    \/ ProcessAiAudit(1)
    \/ ProcessVerification(1)
    \/ \E o \in storage : DeleteObject(o) /\ UNCHANGED <<doc, verification>>

SpecService == InitApi /\ [][NextService]_vars

\* ------------------------------------------------ runs scheduled to their end
\* posts fetched by the runs followed to their end: one that is merged and one
\* whose normalisation raises
LivePosts ==
    { RawPost(<<"X">>, "c1", TsBoth, MvImage),
      RawPost(<<"Y">>, "c1", TsBoth, MvNoCandidates) }

\* the steps of a background run that has started
ContinueRun ==
    \/ ProcessScrapingMerge(1)
    \/ \E failed \in SUBSET PostIds(task[1].df), auto \in BOOLEAN :
          ProcessScrapingDownload(1, failed, auto)
    \/ \E fails \in SUBSET PostIds(task[1].df) : ProcessScrapingEnrich(1, fails)
    \/ ProcessScrapingAudit(1)
    \/ \E fails \in SUBSET PostIds(task[1].df) : ProcessAiEnrich(1, fails)
    \/ ProcessAiAudit(1)

NextLive ==
    \/ \E batch \in BatchesOf(LivePosts), fetched \in FetchOutcomes :
          ProcessScrapingStart(1, batch, fetched)
    \/ \E mode \in Modes : ProcessAiStart(1, mode)
    \/ ProcessVerification(1)
    \/ ContinueRun
    \/ \E o \in storage : DeleteObject(o) /\ UNCHANGED <<doc, verification>>

\* background_tasks.add_task runs the function to its end once the response
\* is sent, and every call the function makes returns or raises: a run that
\* has started keeps taking its steps
SpecLive == InitApi /\ [][NextLive]_vars /\ WF_vars(ContinueRun)

\* ----------------------------------------------------- the merge step alone
MaxPrior == 2

\* a record as an enrichment pass leaves it
Enriched(row, d, now) ==
    [row EXCEPT !.ai_analysis_results = AnalysisResults(d),
                !.ai_content_description = d,
                !.ai_processed_time = <<now>>]

\* records an earlier run (at time NowAt(0)) can have persisted
PriorRecords ==
    LET x1 == Normalize(RawPost(<<"X">>, "c1", TsBoth, MvImage), None, NowAt(0))
        x2 == Normalize(RawPost(<<"X">>, "c1", TsNone, MvImage), None, NowAt(0))
        y  == Normalize(RawPost(<<"Y">>, "c1", TsSecondary, MvAlbum), None, NowAt(0))
        e  == Normalize(RawPost(<<>>, "c1", TsBoth, MvReel), None, NowAt(0))
    IN  { x1, Enriched(x1, DescriptionText, NowAt(0)), Enriched(x2, DescriptionText, NowAt(0)),
          y, Enriched(e, VideoFailedText, NowAt(0)), Placeholder(OrphanReel, NowAt(0)) }

PriorSets == {None} \cup { Some(rows) : rows \in UNION { [1..n -> PriorRecords] : n \in 0..MaxPrior } }

\* extract_post_metadata applied to every bounded prior set and batch
InitMerge ==
    /\ snapshot \in PriorSets
    /\ storage = {}
    /\ clock = 1
    /\ deletes = 0
    /\ \E batch \in BatchesOf(RawPosts) \ {<<>>} :
          task = [t \in Tasks |->
                    IF t = 1
                    THEN [IdleTask EXCEPT !.pc = "merge", !.op = "scrape",
                                          !.existing = snapshot, !.posts = batch]
                    ELSE IdleTask]
    /\ auditStreak = 0
    /\ auditWrote = FALSE
    /\ doc = NoDoc
    /\ verification = "none"

NextMerge == ScrapeMerge(1) /\ UNCHANGED <<doc, verification>>

SpecMerge == InitMerge /\ [][NextMerge]_vars

\* ------------------------------------ upload_dataframe / download_dataframe
\* Python values of a data frame cell: ty is the Python type, v the content
PyStr(x) == [ty |-> "str", v |-> <<x>>]
PyNone == [ty |-> "NoneType", v |-> <<>>]
PyList(q) == [ty |-> "list", v |-> q]
NdArray(q) == [ty |-> "ndarray", v |-> q]
PyDict(f) == [ty |-> "dict", v |-> f]

\* the dictionary behind a record's ai_analysis_results
AnalysisDict(r) ==
    IF r.kind = "pending"
    THEN PyDict([k \in {"status"} |-> PyStr("pending")])
    ELSE PyDict([k \in {"description", "safety"} |->
                    IF k = "description" THEN PyStr(r.description) ELSE PyStr("")])

\* the data frame row of a record, cell by cell
FrameRow(row) ==
    [post_id |-> PyStr(row.post_id),
     caption |-> PyStr(row.caption),
     timestamp |-> [ty |-> "Timestamp", v |-> <<row.timestamp>>],
     media_type |-> PyStr(row.media_type),
     media_urls |-> PyList(row.media_urls),
     media_processed_error |-> PyNone,
     ai_content_description |-> PyStr(row.ai_content_description),
     ai_analysis_results |-> AnalysisDict(row.ai_analysis_results)]

DataFrame(rows) == [i \in DOMAIN rows |-> FrameRow(rows[i])]

\* keys of the struct type of a column: every key some dictionary of the
\* column has
StructKeys(frame, c) ==
    UNION { DOMAIN frame[i][c].v : i \in {j \in DOMAIN frame : frame[j][c].ty = "dict"} }

\* the stored value of a cell in a column whose struct type has these keys
ToArrow(cell, keys) ==
    CASE cell.ty = "list" -> [ty |-> "list<item>", v |-> cell.v]
      [] cell.ty = "dict" ->
            [ty |-> "struct",
             v |-> [k \in keys |-> IF k \in DOMAIN cell.v THEN cell.v[k] ELSE PyNone]]
      [] OTHER -> cell

\* the Python value read back from a stored value
FromArrow(cell) ==
    CASE cell.ty = "list<item>" -> NdArray(cell.v)
      [] cell.ty = "struct" -> PyDict(cell.v)
      [] OTHER -> cell

\* df.to_parquet(parquet_buffer)
ToParquet(frame) ==
    [i \in DOMAIN frame |->
        [c \in DOMAIN frame[i] |-> ToArrow(frame[i][c], StructKeys(frame, c))]]

\* pd.read_parquet(parquet_buffer)
ReadParquet(file) ==
    [i \in DOMAIN file |-> [c \in DOMAIN file[i] |-> FromArrow(file[i][c])]]

\* record sets handed to upload_dataframe
Frames == { DataFrame(rows) : rows \in UNION { [1..n -> PriorRecords] : n \in 0..MaxPrior } }

InitParquet ==
    /\ snapshot = None
    /\ storage = {}
    /\ clock = 0
    /\ deletes = 0
    /\ \E frame \in Frames :
          task = [t \in Tasks |->
                    IF t = 1 THEN [IdleTask EXCEPT !.pc = "upload", !.df = frame]
                    ELSE IdleTask]
    /\ auditStreak = 0
    /\ auditWrote = FALSE
    /\ doc = NoDoc
    /\ verification = "none"

\* upload_dataframe: the blob is replaced by the serialized frame
UploadDataframe(t) ==
    /\ task[t].pc = "upload"
    /\ snapshot' = Some(ToParquet(task[t].df))
    /\ task' = [task EXCEPT ![t].pc = "read"]
    /\ UNCHANGED <<storage, clock, deletes, auditStreak, auditWrote, doc, verification>>

\* download_dataframe: None when the blob does not exist
DownloadDataframe(t) ==
    /\ task[t].pc = "read"
    /\ task' = [task EXCEPT ![t].pc = "loaded",
                            ![t].ret = IF snapshot.exists
                                       THEN Some(ReadParquet(snapshot.rows))
                                       ELSE None]
    /\ UNCHANGED <<snapshot, storage, clock, deletes, auditStreak, auditWrote, doc, verification>>

NextParquet == UploadDataframe(1) \/ DownloadDataframe(1)

SpecParquet == InitParquet /\ [][NextParquet]_vars

\* C22: a record set written with upload_dataframe and read back with
\* download_dataframe equals the original cell by cell, in type and value.
C22_ParquetRoundTrip ==
    \A t \in Tasks : task[t].pc = "loaded" => task[t].ret = Some(task[t].df)

\* the merge step has just returned task t's record set
Merged(t) == task[t].pc = "download" /\ task[t].posts # <<>>

NoRepeatedPostId(rows) ==
    \A i, j \in DOMAIN rows : rows[i].post_id = rows[j].post_id => i = j

\* C1: the record set returned by the merge step contains each post_id at
\* most once, whatever the batch and the prior set.
C1_MergeDuplicateFree ==
    \A t \in Tasks : Merged(t) => NoRepeatedPostId(task[t].df)

\* C2: a prior record with a non-empty ai_content_description whose post_id
\* the batch re-reports keeps its ai_content_description and
\* ai_processed_time through the merge.
C2_MergeKeepsEnrichment ==
    \A t \in Tasks : Merged(t) /\ task[t].existing.exists =>
        \A i \in DOMAIN task[t].existing.rows :
            LET old == task[t].existing.rows[i]
            IN  (/\ old.ai_content_description # ""
                 /\ \E k \in DOMAIN task[t].posts : task[t].posts[k].code = old.post_id)
                => /\ i \in DOMAIN task[t].df
                   /\ task[t].df[i].post_id = old.post_id
                   /\ task[t].df[i].ai_content_description = old.ai_content_description
                   /\ task[t].df[i].ai_processed_time = old.ai_processed_time

C2_Witness ==
    \E t \in Tasks :
        /\ Merged(t) /\ task[t].existing.exists
        /\ \E i \in DOMAIN task[t].existing.rows, k \in DOMAIN task[t].posts :
              /\ task[t].existing.rows[i].ai_content_description # ""
              /\ task[t].posts[k].code = task[t].existing.rows[i].post_id
              /\ task[t].df[i].ai_content_description # ""

\* a raw timestamp field the merge can turn into a timestamp
Parseable(v) == (v.ty = "int" /\ v.n # 0) \/ v.ty = "str"

\* the timestamp the precedence rule gives a post: primary field, secondary
\* field, timestamp of the first prior record of the post, current time
ExpectedTimestamp(post, prior, now) ==
    IF Parseable(post.taken_at_utc) THEN post.taken_at_utc.n
    ELSE IF Parseable(post.taken_at) THEN post.taken_at.n
    ELSE IF \E i \in DOMAIN prior : prior[i].post_id = post.code
         THEN FirstRow(prior, post.code).timestamp
    ELSE now

\* C3: timestamps follow the precedence primary, secondary, prior record,
\* current time; a known post fetched without a parseable timestamp keeps
\* the prior timestamp instead of the current time.
C3_TimestampPrecedence ==
    \A t \in Tasks : Merged(t) =>
        LET prior == task[t].existing.rows
            batch == task[t].posts
            out   == task[t].df
        IN  /\ \A i \in DOMAIN prior :
                  (\E k \in DOMAIN batch : batch[k].code = prior[i].post_id)
                  => LET k == CHOOSE k \in DOMAIN batch :
                                 /\ batch[k].code = prior[i].post_id
                                 /\ \A m \in (k + 1)..Len(batch) : batch[m].code # prior[i].post_id
                     IN  out[i].timestamp = ExpectedTimestamp(batch[k], prior, Now)
            /\ \A i \in DOMAIN prior :
                  (/\ \E k \in DOMAIN batch : batch[k].code = prior[i].post_id
                   /\ \A k \in DOMAIN batch : batch[k].code = prior[i].post_id
                         => ~Parseable(batch[k].taken_at_utc) /\ ~Parseable(batch[k].taken_at))
                  => out[i].timestamp = FirstRow(prior, prior[i].post_id).timestamp
            /\ \A j \in DOMAIN out : j > Len(prior) =>
                  \E k \in DOMAIN batch :
                      /\ batch[k].code = out[j].post_id
                      /\ out[j].timestamp = ExpectedTimestamp(batch[k], prior, Now)

C3_Witness ==
    \E t \in Tasks :
        /\ Merged(t)
        /\ \E i \in DOMAIN task[t].existing.rows :
              /\ \E k \in DOMAIN task[t].posts :
                    task[t].posts[k].code = task[t].existing.rows[i].post_id
              /\ \A k \in DOMAIN task[t].posts :
                    task[t].posts[k].code = task[t].existing.rows[i].post_id
                    => ~Parseable(task[t].posts[k].taken_at_utc) /\ ~Parseable(task[t].posts[k].taken_at)
              /\ task[t].df[i].timestamp = task[t].existing.rows[i].timestamp
              /\ task[t].df[i].timestamp # Now

Complete(row) == row.ai_content_description # "" /\ row.ai_processed_time # <<>>

Pending(row) == row.ai_content_description = "" /\ row.ai_processed_time = <<>>

\* C11: merging a batch that re-reports the only prior record (an album with
\* pending enrichment) and reports one new single-image post yields exactly
\* two records: the known one with the caption of the batch and its
\* enrichment fields unchanged, and the new one with pending enrichment.
C11_MergeUpdatesCaption ==
    \A t \in Tasks :
        (/\ Merged(t) /\ task[t].existing.exists
         /\ Len(task[t].existing.rows) = 1
         /\ task[t].existing.rows[1].media_type = <<"album">>
         /\ Pending(task[t].existing.rows[1])
         /\ Len(task[t].posts) = 2) =>
        \A k, m \in DOMAIN task[t].posts :
            (/\ task[t].posts[k].code = task[t].existing.rows[1].post_id
             /\ task[t].posts[m].code # task[t].existing.rows[1].post_id
             /\ task[t].posts[m].media_type = RawInt(1)
             /\ task[t].posts[m].shape = "image")
            => /\ Len(task[t].df) = 2
               /\ task[t].df[1].post_id = task[t].posts[k].code
               /\ task[t].df[1].caption = task[t].posts[k].caption
               /\ Pending(task[t].df[1])
               /\ task[t].df[1].ai_analysis_results = task[t].existing.rows[1].ai_analysis_results
               /\ task[t].df[2].post_id = task[t].posts[m].code
               /\ task[t].df[2].media_type = <<"post">>
               /\ Pending(task[t].df[2])

\* C23: for a post_id already in the prior set the merge changes at most the
\* timestamp of the prior record: every other field of the record stays as
\* persisted, whatever the re-fetched post reports.
C23_KnownRecordFrame ==
    \A t \in Tasks : Merged(t) /\ task[t].existing.exists =>
        \A i \in DOMAIN task[t].existing.rows :
            /\ i \in DOMAIN task[t].df
            /\ [task[t].df[i] EXCEPT !.timestamp = task[t].existing.rows[i].timestamp]
                  = task[t].existing.rows[i]

\* a known record was re-reported with another caption, another media type
\* and another timestamp, and the merge moved its timestamp
C23_Witness ==
    \E t \in Tasks :
        /\ Merged(t) /\ task[t].existing.exists
        /\ \E i \in DOMAIN task[t].existing.rows, k \in DOMAIN task[t].posts :
              /\ task[t].posts[k].code = task[t].existing.rows[i].post_id
              /\ task[t].posts[k].caption # task[t].existing.rows[i].caption
              /\ ResolveMediaType(task[t].posts[k]) # task[t].existing.rows[i].media_type
              /\ Complete(task[t].existing.rows[i])
              /\ task[t].df[i].timestamp # task[t].existing.rows[i].timestamp
              /\ task[t].df[i].caption = task[t].existing.rows[i].caption

\* the object paths the pipeline writes for a record: its downloaded media
\* and, for a reel, the processed copy of the video
WrittenPaths(row) ==
    DownloadPaths(row)
    \cup (IF row.media_type = <<"reel">> /\ row.gcs_location # <<>>
          THEN {ProcessedVideoPath(row.gcs_location)} ELSE {})

\* C25: the naming convention round-trips: from every object path the
\* pipeline writes for a merged record the audit parses that record's
\* post_id and media_type.
C25_NamingRoundTrip ==
    \A t \in Tasks : Merged(t) =>
        \A i \in DOMAIN task[t].df : \A o \in WrittenPaths(task[t].df[i]) :
            /\ IsPostFile(o)
            /\ ParsePostId(o) = task[t].df[i].post_id
            /\ ParseMediaType(o) = task[t].df[i].media_type

\* C17: a raw post that cannot be normalized is skipped alone: the merge
\* still returns a record set that holds every other post of the batch.
C17_BadPostSkippedAlone ==
    [][\A t \in Tasks : task[t].pc = "merge" /\ task'[t].pc # "merge" =>
          \A k \in DOMAIN task[t].posts :
              ~NormalizeRaises(task[t].posts[k])
              => /\ task'[t].pc = "download"
                 /\ task[t].posts[k].code \in PostIds(task'[t].df)]_vars

\* the raw media type is an integer or a string outside the mapping 1/2/8
UnrecognizedMediaType(post) ==
    \/ post.media_type.ty = "badstr"
    \/ post.media_type.ty \in {"int", "str"} /\ post.media_type.n \notin {1, 2, 8}

\* C19: a post with an unrecognized media type is admitted with media_type
\* "post" and does not keep the other posts of the batch from being admitted.
C19_UnknownTypeAdmittedAsPost ==
    [][\A t \in Tasks : task[t].pc = "merge" /\ task'[t].pc # "merge" =>
          \A k \in DOMAIN task[t].posts :
              (/\ UnrecognizedMediaType(task[t].posts[k])
               /\ \A m \in DOMAIN task[t].posts :
                     UnrecognizedMediaType(task[t].posts[m])
                     \/ ~NormalizeRaises(task[t].posts[m]))
              => /\ task'[t].pc = "download"
                 /\ \A m \in DOMAIN task[t].posts :
                       task[t].posts[m].code \in PostIds(task'[t].df)
                 /\ task[t].posts[k].code \notin PostIds(task[t].existing.rows)
                    => \E i \in DOMAIN task'[t].df :
                          /\ task'[t].df[i].post_id = task[t].posts[k].code
                          /\ task'[t].df[i].media_type = <<"post">>]_vars

\* ------------------------------------------------------ enrichment claims
\* task t runs run_ai_processing in mode update_remaining and is past the load
InUpdateRemaining(t) ==
    /\ task[t].op = "ai"
    /\ task[t].mode = "update_remaining"
    /\ task[t].pc \in {"enrich", "audit"}

C12_UpdateAllReprocessesAll ==
    \A t \in Tasks : task[t].op = "ai" /\ task[t].mode = "update_all" =>
        /\ task[t].pc = "enrich" =>
              \A i \in DOMAIN task[t].df : Pending(task[t].df[i])
        /\ task[t].pc = "audit" => task[t].attempted = DOMAIN task[t].df

IsAuditStep == auditStreak' >= 1

\* C5: the audit uploads the snapshot only if a record lacks its storage or
\* a post file belongs to no surviving record; an audit that directly
\* follows another audit uploads nothing and leaves the snapshot as it is.
C5_AuditIdempotent ==
    [][IsAuditStep =>
          /\ auditWrote' =>
                \/ \E i \in DOMAIN snapshot.rows : ~StorageExists(snapshot.rows[i], storage)
                \/ \E o \in storage :
                      /\ StartsWith(FileName(o), <<"post", "__">>)
                      /\ \A i \in DOMAIN snapshot.rows :
                            StorageExists(snapshot.rows[i], storage)
                            => snapshot.rows[i].post_id # Split(FileName(o), "__")[2]
          /\ ~auditWrote' => snapshot' = snapshot
          /\ auditStreak >= 1 => ~auditWrote' /\ snapshot' = snapshot]_vars

\* a second audit in a row has run on a snapshot holding a placeholder that
\* an audit admitted
C5_Witness ==
    /\ auditStreak = 2
    /\ ~auditWrote
    /\ \E i \in DOMAIN snapshot.rows :
          /\ snapshot.rows[i].media_urls = <<>>
          /\ snapshot.rows[i].caption = ""
          /\ snapshot.rows[i].gcs_location \in storage

\* C6: a record whose analysis call failed is left pending, is counted as
\* skipped and not as processed, and is selected again by the next pass.
C6_FailedAnalysisLeftPending ==
    \A t \in Tasks : task[t].pc = "audit" /\ (task[t].op = "ai" \/ task[t].auto) =>
        /\ \A i \in task[t].failed :
              /\ Pending(task[t].df[i])
              /\ NeedsProcessing(task[t].df[i])
        /\ task[t].processed =
              Cardinality({i \in DOMAIN task[t].df :
                              /\ i \notin task[t].failed
                              /\ task[t].df[i].ai_processed_time = <<Now>>})
        /\ task[t].skipped = Len(task[t].df) - task[t].processed

\* C7: in every persisted snapshot a record has an ai_processed_time if and
\* only if its ai_content_description is non-empty.
C7_TimeIffDescription ==
    \A i \in DOMAIN snapshot.rows :
        snapshot.rows[i].ai_processed_time # <<>>
        <=> snapshot.rows[i].ai_content_description # ""

\* C8: no two records of a persisted snapshot share a post_id.
C8_PostIdUnique == NoRepeatedPostId(snapshot.rows)

\* C15: when the fetch returns zero posts, process_profile writes no snapshot
\* and returns the prior record set unchanged.
C15_ZeroPostsKeepsPrior ==
    [][\A t \in Tasks :
          (/\ clock' = clock + 1 /\ task'[t].run = clock'
           /\ task'[t].pc = "idle"
           /\ task'[t].fetch \in FetchOutcomes)
          => /\ snapshot' = snapshot
             /\ task'[t].ret = snapshot]_vars

\* a fetch without posts has returned while a non-empty snapshot is persisted
C15_Witness ==
    \E t \in Tasks :
        /\ task[t].pc = "idle" /\ task[t].fetch = "ok"
        /\ snapshot.exists /\ snapshot.rows # <<>>
        /\ task[t].ret = snapshot

\* C16: when the fetch call of a scrape run fails, the run leaves the
\* persisted snapshot untouched and ends with status "failed", also when a
\* snapshot already exists.
C16_FetchFailureFails ==
    [][\A t \in Tasks :
          (/\ clock' = clock + 1 /\ task'[t].run = clock'
           /\ task'[t].pc = "idle"
           /\ task'[t].fetch = "error")
          => /\ snapshot' = snapshot
             /\ doc'.status = "failed"]_vars

\* C18: at most one background operation of the username is in flight.
C18_OneOperationInFlight ==
    Cardinality({t \in Tasks : task[t].pc # "idle"}) <= 1

\* task t has merged and saved its frame and has not yet returned
PastMerge(t) == task[t].op = "scrape" /\ task[t].pc \in {"download", "enrich", "audit"}

\* C28: a save takes no account of what the snapshot holds at that moment:
\* after the merge step of a run the snapshot holds only post_ids of the
\* copy the run loaded and of its batch, and after an enrichment step only
\* the records of the run's own frame, so that a record or an enrichment
\* another run saved in between is gone.
C28_LaterSaveOverwrites ==
    [][\A t \in Tasks :
          /\ (task[t].pc = "merge" /\ task'[t].pc = "download")
                => /\ snapshot' = Some(task'[t].df)
                   /\ PostIds(snapshot'.rows) \subseteq
                         PostIds(task[t].existing.rows)
                            \cup {task[t].posts[i].code : i \in DOMAIN task[t].posts}
          /\ (task[t].pc = "enrich" /\ task'[t].pc = "audit")
                => /\ snapshot' = Some(task'[t].df)
                   /\ PostIds(snapshot'.rows) = PostIds(task[t].df)]_vars

\* two runs loaded the snapshot before either saved; the later save has
\* replaced the earlier one and a record the earlier run saved is absent
C28_Witness ==
    \E t, u \in Tasks :
        /\ t # u
        /\ PastMerge(t) /\ PastMerge(u)
        /\ snapshot = Some(task[t].df)
        /\ \E id \in PostIds(task[u].df) : id \notin PostIds(snapshot.rows)

TerminalStatus == {"completed", "failed"}

\* position of a status value in the order of a run
StatusRank(st) ==
    CASE st = "initializing" -> 1
      [] st = "fetching_profile" -> 2
      [] st = "in_progress" -> 3
      [] st \in TerminalStatus -> 4
      [] OTHER -> 0

MovesForward(trail) ==
    \A i \in 1..(Len(trail) - 1) : StatusRank(trail[i]) < StatusRank(trail[i + 1])

\* the values a finished scrape run may have written, in order
ScrapeTrails ==
    { <<"initializing", "fetching_profile", "in_progress", "completed">>,
      <<"initializing", "fetching_profile", "failed">> }

\* C29: a background run that is in flight eventually ends with the status
\* completed or failed; while no run is in flight the status of the document
\* and the verification status are terminal; the status values a run writes
\* only move forward, and a finished scrape run wrote initializing,
\* fetching_profile, then in_progress and completed, or failed.
C29_RunsEndTerminal ==
    /\ (task[1].pc # "idle") ~> (task[1].pc = "idle" /\ doc.status \in TerminalStatus)
    /\ [](task[1].pc = "idle" /\ doc.exists => doc.status \in TerminalStatus)
    /\ [](verification \in TerminalStatus \cup {"none"})
    /\ [](MovesForward(doc.trail))
    /\ [](task[1].pc = "idle" /\ Len(doc.trail) >= 2 /\ doc.trail[2] = "fetching_profile"
            => doc.trail \in ScrapeTrails)

\* a scrape run that got no data has ended with the status failed after
\* initializing and fetching_profile, and a verification run has set its status
C29_Witness ==
    /\ task[1].pc = "idle"
    /\ doc.trail = <<"initializing", "fetching_profile", "failed">>
    /\ verification \in TerminalStatus

\* fields every record is expected to carry
ExpectedFields ==
    {"permalink", "caption", "media_type", "timestamp", "ai_analysis",
     "ai_content_description", "ai_processed_time", "gcs_location",
     "username", "post_id"}

\* C20: every record of the persisted snapshot and every entry of the
\* published metadata array carries all expected fields.
C20_ExpectedFieldsPresent ==
    /\ \A i \in DOMAIN snapshot.rows : ExpectedFields \subseteq DOMAIN snapshot.rows[i]
    /\ \A m \in Range(doc.metadata) :
          \A i \in DOMAIN m : ExpectedFields \subseteq DOMAIN m[i]

\* fields compared between the snapshot and the published metadata array
ComparedFields ==
    {"caption", "media_type", "timestamp", "ai_content_description",
     "ai_processed_time", "gcs_location", "username", "post_id"}

\* every record agrees, in the compared fields, with the published entry of
\* its post_id (the last one, as a lookup dictionary keeps it)
AgreesWithPublished(rows, entries) ==
    \A i \in DOMAIN rows :
        rows[i].post_id \in PostIds(entries) =>
            \A f \in ComparedFields : rows[i][f] = LastRow(entries, rows[i].post_id)[f]

\* C21: when a scrape or process-ai run ends with status completed, every
\* record of the persisted snapshot agrees in each compared field with the
\* entry of its post_id in the published metadata array.
C21_SnapshotMatchesFirestore ==
    [][doc' # doc /\ doc'.status = "completed" /\ doc'.metadata # <<>>
          => AgreesWithPublished(snapshot'.rows, doc'.metadata[1])]_vars

\* C30: once a run has published a non-empty metadata array, a scrape run that ends
\* with status failed leaves the document with a metadata array: whenever
\* the status is failed, the published array is still there.
C30_FailedScrapeKeepsMetadata ==
    []((doc.metadata # <<>> /\ doc.metadata[1] # <<>>)
          => [](doc.status = "failed" => doc.metadata # <<>>))

\* C13: the audit's missing-media pass removes a record if and only if that
\* record's own storage check fails: a record whose storage exists is in
\* the set the audit leaves, a record whose storage is missing is not.
C13_AuditRemovesExactlyMissing ==
    [][IsAuditStep /\ snapshot.exists =>
          \A i \in DOMAIN snapshot.rows :
              StorageExists(snapshot.rows[i], storage)
              <=> snapshot.rows[i] \in Range(snapshot'.rows)]_vars

\* o is an object post__<id>__<type>.<ext> directly under the media root
IsDirectPostObject(o) ==
    /\ StartsWith(o, BaseCloudPath \o <<"/">>)
    /\ Len(Split(o, "/")) = 4
    /\ StartsWith(FileName(o), <<"post", "__">>)
    /\ Len(Split(FileName(o), "__")) = 3
    /\ Len(Split(Split(FileName(o), "__")[3], ".")) >= 2

\* the <id> and the <type> of such an object's name
ObjectPostId(o) == Split(FileName(o), "__")[2]
ObjectMediaType(o) == Split(Split(FileName(o), "__")[3], ".")[1]

\* the records the missing-media pass of an audit of the snapshot leaves
Surviving == RemoveMissing(snapshot.rows, storage)

\* the objects post__<id>__<type>.<ext> whose <id> no surviving record has
OrphanObjects ==
    {o \in storage : IsDirectPostObject(o) /\ ObjectPostId(o) \notin PostIds(Surviving)}

C26_MediaTypeEnum ==
    \A i \in DOMAIN snapshot.rows :
        snapshot.rows[i].media_type \in {<<"post">>, <<"reel">>, <<"album">>}

\* C27: a post_id leaves the persisted snapshot only in an audit and only
\* when the storage check of its record fails; a record with an empty
\* gcs_location is not removed while no stored object has vanished.
C27_RemovedOnlyWhenStorageGone ==
    [][\A i \in DOMAIN snapshot.rows :
          snapshot.rows[i].post_id \notin PostIds(snapshot'.rows)
          => /\ IsAuditStep
             /\ ~StorageExists(snapshot.rows[i], storage)
             /\ snapshot.rows[i].gcs_location = <<>> => deletes > 0]_vars

\* C9: no step replaces a non-empty persisted snapshot by an empty one.
C9_NoEmptyOverwrite ==
    [][snapshot.exists /\ snapshot.rows # <<>>
          => ~(snapshot'.exists /\ snapshot'.rows = <<>>)]_vars

\* o lies in an album directory post__<id>__album/ under the media root
IsAlbumItem(o) ==
    LET segs == Split(o, "/")
    IN  /\ Len(segs) >= 5
        /\ StartsWith(segs[4], <<"post", "__">>)
        /\ Last(Split(segs[4], "__")) = <<"album">>

AlbumItemPostId(o) == Split(Split(o, "/")[4], "__")[2]

\* C10: an audit that returns a record set admits, for every stored album
\* item whose post_id had no record, a pending placeholder of media_type
\* "album" with empty descriptive fields.
C10_AlbumOrphanAdmitted ==
    [][IsAuditStep /\ snapshot.exists /\ snapshot.rows # <<>>
       => \A o \in storage :
             IsAlbumItem(o) /\ AlbumItemPostId(o) \notin PostIds(snapshot.rows)
             => \E i \in DOMAIN snapshot'.rows :
                   /\ snapshot'.rows[i].post_id = AlbumItemPostId(o)
                   /\ snapshot'.rows[i].media_type = <<"album">>
                   /\ snapshot'.rows[i].caption = ""
                   /\ snapshot'.rows[i].media_urls = <<>>
                   /\ Pending(snapshot'.rows[i])]_vars

====
